---- MODULE Spec2Model ----
\* Step management of GlobaLeaks (backend/globaleaks/handlers/admin/step.py):
\* the four transactions create_step, update_step, get_step, delete_step, the
\* reconciliation db_update_steps and the three request handlers around them.
EXTENDS Integers, Sequences, FiniteSets, TLC

\* ------------------------------------------------------------------ bounds
MaxSteps == 2           \* step ids are 1..MaxSteps (stand-ins for uuid4 values)
MaxList == 1            \* longest step list submitted to db_update_steps

StepIds == 1..MaxSteps
Contexts == {"c1", "c2"}
Languages == {"en", "it"}
Texts == {"a", "b"}
FieldIds == {"f1", "f2"}
NoId == MaxSteps + 1    \* no step id
NoText == "-"

VARIABLES
    steps,      \* the models.Step rows: id -> [context_id, label, children];
                \* label maps each language that has a text to the text
    fields,     \* the models.Field rows: the set of stored field ids
    last,       \* the request being answered: operation and arguments
    error,      \* the error kind that reached the caller ("none": no error)
    response,   \* the serialized step the request returned
    steps_ids,  \* the ids db_update_steps collected (its local list, line 133)
    events,     \* what the last request's handler did, in order
    before,     \* the store as it was when the last request began
    txns        \* the transactions of concurrent requests: what each runs,
                \* where it is and what it has written but not committed

vars == <<steps, fields, last, error, response, steps_ids, events, before, txns>>

\* ------------------------------------------------------- module name space
\* The names step.py binds at module level: its imports (lines 7-22) and its
\* own definitions. A call through any other global name raises NameError.
ModuleNames ==
    { "copy", "And", "Not", "In", "inlineCallbacks", "models", "authenticated",
      "transport_security_check", "db_import_fields", "BaseHandler",
      "anon_serialize_step", "requests", "errors", "GLApiCache", "transact",
      "transact_ro", "GLSettings", "fill_localized_keys",
      "db_create_step", "create_step", "update_step", "get_step",
      "delete_step", "db_update_steps", "StepCreate", "StepInstance" }

Bound(name) == name \in ModuleNames

\* ------------------------------------------------------------ result values
NoResponse == [id |-> NoId, context_id |-> "", label |-> NoText, children |-> {}]

Ok(store, ret) == [store |-> store, err |-> "none", ret |-> ret]
Fail(store, kind) == [store |-> store, err |-> kind, ret |-> NoResponse]

Range(seq) == { seq[i] : i \in 1..Len(seq) }

\* ------------------------------------------------- collaborators of step.py
\* utils.structures.fill_localized_keys: the request's text for the request
\* language becomes a one-language mapping.
fill_localized_keys(step, language) ==
    [step EXCEPT !.label = [l \in {language} |-> step.label]]

\* models.Field.get: the field row, or None.
Field_get(store, field_id) == field_id \in store.fields

\* models.Step.get / store.find(models.Step, models.Step.id == step_id).one()
Step_get(store, step_id) == step_id \in DOMAIN store.steps

\* models.Step.new: insert a row with a freshly allocated id.
Step_new(store, step, new_id) ==
    [store EXCEPT !.steps =
        [i \in DOMAIN store.steps \cup {new_id} |->
            IF i = new_id
            THEN [context_id |-> step.context_id, label |-> step.label,
                  children |-> {}]
            ELSE store.steps[i]]]

\* Localization merge of models.Model.update: the submitted languages replace
\* their entries, the others stay.
merge(old, new) ==
    [l \in DOMAIN old \cup DOMAIN new |-> IF l \in DOMAIN new THEN new[l] ELSE old[l]]

\* models.Step.update: the row takes the request's attributes; the id stays.
Step_update(store, step_id, request) ==
    [store EXCEPT !.steps[step_id] =
        [@ EXCEPT !.context_id = request.context_id,
                  !.label = merge(@, request.label)]]

\* models.Step.delete: the row and its associations go, the fields stay.
Step_delete(store, step_id) ==
    [store EXCEPT !.steps = [i \in DOMAIN store.steps \ {step_id} |-> store.steps[i]]]

\* handlers.node.anon_serialize_step: the step in the request language.
anon_serialize_step(store, step_id, language) ==
    LET s == store.steps[step_id]
    IN [id |-> step_id, context_id |-> s.context_id,
        label |-> IF language \in DOMAIN s.label THEN s.label[language] ELSE NoText,
        children |-> s.children]

\* settings.transact: commit when the body returns, roll back to the store
\* as it was when the body raises.
transact(store, result) ==
    IF result.err = "none" THEN result ELSE [result EXCEPT !.store = store]

\* settings.transact_ro: a read-only transaction, which never commits.
transact_ro(store, result) == [result EXCEPT !.store = store]

\* handlers.admin.field.db_update_field: the field subsystem's update path;
\* field attributes are outside this model, a missing field is an error.
db_update_field(store, field_id) ==
    IF Field_get(store, field_id) THEN Ok(store, NoResponse)
    ELSE Fail(store, "FieldIdNotFound")

\* ------------------------------------------------------------- step.py code
\* The loop of db_create_step (lines 35-41) from child i on.
RECURSIVE create_children(_, _, _)
create_children(store, children, i) ==
    IF i > Len(children) THEN Ok(store, NoResponse)
    ELSE IF ~Field_get(store, children[i])
         THEN \* line 38 evaluates log.err before line 39 can raise
              IF Bound("log") THEN Fail(store, "FieldIdNotFound")
              ELSE Fail(store, "NameError")
         ELSE IF ~Bound("db_update_field") THEN Fail(store, "NameError")
              ELSE LET r == db_update_field(store, children[i])
                   IN IF r.err # "none" THEN r
                      ELSE create_children(r.store, children, i + 1)

db_create_step(store, step, language, new_id) ==
    LET filled == fill_localized_keys(step, language)
        s == Step_new(store, filled, new_id)
    IN create_children(s, step.children, 1)

create_step(store, step, language, new_id) ==
    LET r == db_create_step(store, step, language, new_id)
    IN IF r.err # "none" THEN r
       ELSE Ok(r.store, anon_serialize_step(r.store, new_id, language))

\* The loop of update_step (lines 78-79) from child i on.
RECURSIVE update_children(_, _, _)
update_children(store, children, i) ==
    IF i > Len(children) THEN Ok(store, NoResponse)
    ELSE IF ~Bound("db_update_field") THEN Fail(store, "NameError")
         ELSE LET r == db_update_field(store, children[i])
              IN IF r.err # "none" THEN r
                 ELSE update_children(r.store, children, i + 1)

\* update_try writing the row of the id in the request body, when that id is
\* stored, instead of the row of the step_id of the call.
update_try_by_body_id(store, step_id, request, language) ==
    IF ~Step_get(store, step_id) THEN Fail(store, "StepIdNotFound")
    ELSE LET filled == fill_localized_keys(request, language)
             target == IF Step_get(store, request.id) THEN request.id ELSE step_id
             s == Step_update(store, target, filled)
         IN update_children(s, request.children, 1)

\* update_try with the localized keys filled for the node's default language
\* instead of the request language.
update_try_default_language(store, step_id, request, language) ==
    IF ~Step_get(store, step_id) THEN Fail(store, "StepIdNotFound")
    ELSE LET filled == fill_localized_keys(request, "en")
             s == Step_update(store, step_id, filled)
         IN update_children(s, request.children, 1)

\* The try block of update_step (lines 71-79).
update_try(store, step_id, request, language) ==
    IF ~Step_get(store, step_id) THEN Fail(store, "StepIdNotFound")
    ELSE LET filled == fill_localized_keys(request, language)
             s == Step_update(store, step_id, filled)
         IN update_children(s, request.children, 1)

\* The except clause logging the failure and not raising again.
update_except_swallow(result) == Ok(result.store, NoResponse)

\* The except clause of update_step (lines 81-83): every Exception raised in
\* the try block lands here; line 82 evaluates log.err before line 83 raises.
update_except(result) ==
    IF Bound("log") THEN Fail(result.store, "InvalidInputFormat")
    ELSE Fail(result.store, "NameError")

update_step(store, step_id, request, language) ==
    LET r == update_try(store, step_id, request, language)
    IN IF r.err # "none" THEN update_except(r)
       ELSE Ok(r.store, anon_serialize_step(r.store, step_id, language))

get_step(store, step_id, language) ==
    IF ~Step_get(store, step_id) THEN Fail(store, "StepIdNotFound")
    ELSE Ok(store, anon_serialize_step(store, step_id, language))

\* delete_step with the id filter of its query lost: it takes whichever step
\* the query returns.
delete_step_unfiltered(store, step_id) ==
    IF DOMAIN store.steps = {} THEN Fail(store, "StepIdNotFound")
    ELSE Ok(Step_delete(store, IF Step_get(store, step_id) THEN step_id
                               ELSE CHOOSE i \in DOMAIN store.steps : TRUE),
            NoResponse)

delete_step(store, step_id) ==
    IF ~Step_get(store, step_id) THEN Fail(store, "StepIdNotFound")
    ELSE Ok(Step_delete(store, step_id), NoResponse)

\* db_update_step, which db_update_steps calls at line 137: update the step
\* with this id, or create it when no step has the id; returns the id.
db_update_step(store, step_id, step, language) ==
    IF Step_get(store, step_id)
    THEN update_step(store, step_id, step, language)
    ELSE create_step(store, step, language,
                     CHOOSE i \in StepIds : i \notin DOMAIN store.steps)

\* The loop of db_update_steps with an upsert that updates a stored id and
\* creates any other step under the id the client submitted.
RECURSIVE upsert_steps_keep_id(_, _, _, _, _, _)
upsert_steps_keep_id(store, context_id, list, language, i, ids) ==
    IF i > Len(list)
    THEN [store |-> store, err |-> "none", ret |-> NoResponse, steps_ids |-> ids]
    ELSE LET step == [list[i] EXCEPT !.context_id = context_id]
             filled == fill_localized_keys(step, language)
             s == IF Step_get(store, step.id)
                  THEN Step_update(store, step.id, filled)
                  ELSE Step_new(store, filled, step.id)
         IN upsert_steps_keep_id(s, context_id, list, language, i + 1,
                                 Append(ids, step.id))

\* The loop of db_update_steps calling update_step where it names
\* db_update_step: a stored id is updated, any other id is an error.
RECURSIVE upsert_steps_update_step(_, _, _, _, _, _)
upsert_steps_update_step(store, context_id, list, language, i, ids) ==
    IF i > Len(list)
    THEN [store |-> store, err |-> "none", ret |-> NoResponse, steps_ids |-> ids]
    ELSE LET step == [list[i] EXCEPT !.context_id = context_id]
             r == update_step(store, step.id, step, language)
         IN IF r.err # "none"
            THEN [store |-> r.store, err |-> r.err, ret |-> NoResponse,
                  steps_ids |-> ids]
            ELSE upsert_steps_update_step(r.store, context_id, list, language,
                                          i + 1, Append(ids, r.ret.id))

\* The loop of db_update_steps (lines 135-137) from step i on; ids is
\* steps_ids so far.
RECURSIVE upsert_steps(_, _, _, _, _, _)
upsert_steps(store, context_id, list, language, i, ids) ==
    IF i > Len(list)
    THEN [store |-> store, err |-> "none", ret |-> NoResponse, steps_ids |-> ids]
    ELSE LET step == [list[i] EXCEPT !.context_id = context_id]
         IN IF ~Bound("db_update_step")
            THEN [store |-> store, err |-> "NameError", ret |-> NoResponse,
                  steps_ids |-> ids]
            ELSE LET r == db_update_step(store, step.id, step, language)
                 IN IF r.err # "none"
                    THEN [store |-> r.store, err |-> r.err, ret |-> NoResponse,
                          steps_ids |-> ids]
                    ELSE upsert_steps(r.store, context_id, list, language, i + 1,
                                      Append(ids, r.ret.id))

\* prune without the context_id condition of its query.
prune_any_context(store, context_id, ids) ==
    [store EXCEPT !.steps =
        [i \in { j \in DOMAIN store.steps : j \in Range(ids) } |-> store.steps[i]]]

\* prune removing one matching step only instead of the whole result set.
prune_one(store, context_id, ids) ==
    LET stale == { j \in DOMAIN store.steps :
                      store.steps[j].context_id = context_id /\ j \notin Range(ids) }
        gone == IF stale = {} THEN {}
                ELSE { CHOOSE j \in stale : \A k \in stale : j <= k }
    IN [store EXCEPT !.steps = [i \in DOMAIN store.steps \ gone |-> store.steps[i]]]

\* prune cascading to the fields of the steps it removes.
prune_cascade(store, context_id, ids) ==
    LET stale == { j \in DOMAIN store.steps :
                      store.steps[j].context_id = context_id /\ j \notin Range(ids) }
    IN [steps |-> [i \in DOMAIN store.steps \ stale |-> store.steps[i]],
        fields |-> store.fields \ UNION { store.steps[j].children : j \in stale }]

\* Line 139: remove the context's steps whose id is not in steps_ids.
prune(store, context_id, ids) ==
    [store EXCEPT !.steps =
        [i \in { j \in DOMAIN store.steps :
                    ~(store.steps[j].context_id = context_id /\ j \notin Range(ids)) }
            |-> store.steps[i]]]

\* db_update_steps swallowing a failed upsert and pruning all the same.
db_update_steps_swallow(store, context_id, list, language) ==
    LET u == upsert_steps(store, context_id, list, language, 1, <<>>)
    IN [u EXCEPT !.err = "none",
                 !.store = prune(u.store, context_id, u.steps_ids)]

db_update_steps(store, context_id, list, language) ==
    LET u == upsert_steps(store, context_id, list, language, 1, <<>>)
    IN IF u.err # "none" THEN u
       ELSE [u EXCEPT !.store = prune(u.store, context_id, u.steps_ids)]

\* ----------------------------------------------------------------- handlers
\* What a handler leaves behind: the store, the error that reached the
\* caller, the response body and the handler's calls in order.
Served(r, evs) == [store |-> r.store, err |-> r.err, ret |-> r.ret, events |-> evs]

\* A request body that requests.StepDesc rejects.
Malformed == [id |-> NoId, context_id |-> "", label |-> NoText, children |-> <<>>]

\* BaseHandler.validate_message: raises InvalidInputFormat on a bad body.
validate_message(body) == body # Malformed

StepCreate_post(store, body, language, new_id) ==
    IF ~validate_message(body)
    THEN Served(Fail(store, "InvalidInputFormat"), <<"validate_message">>)
    ELSE LET r == transact(store, create_step(store, body, language, new_id))
         IN IF r.err # "none"
            THEN Served(r, <<"validate_message", "create_step">>)
            ELSE Served(r, <<"validate_message", "create_step", "invalidate",
                             "set_status 201", "finish">>)

\* StepInstance.get yielding the transaction of StepInstance.delete.
StepInstance_get_as_delete(store, step_id, language) ==
    LET r == transact(store, delete_step(store, step_id))
    IN IF r.err # "none"
       THEN Served(r, <<"get_step">>)
       ELSE Served(r, <<"get_step", "set_status 200", "finish">>)

StepInstance_get(store, step_id, language) ==
    LET r == transact_ro(store, get_step(store, step_id, language))
    IN IF r.err # "none"
       THEN Served(r, <<"get_step">>)
       ELSE Served(r, <<"get_step", "set_status 200", "finish">>)

\* StepInstance.put invalidating the cache before the transaction has run.
StepInstance_put_invalidate_first(store, step_id, body, language) ==
    IF ~validate_message(body)
    THEN Served(Fail(store, "InvalidInputFormat"), <<"validate_message">>)
    ELSE LET r == transact(store, update_step(store, step_id, body, language))
         IN IF r.err # "none"
            THEN Served(r, <<"validate_message", "invalidate", "update_step">>)
            ELSE Served(r, <<"validate_message", "invalidate", "update_step",
                             "set_status 202", "finish">>)

StepInstance_put(store, step_id, body, language) ==
    IF ~validate_message(body)
    THEN Served(Fail(store, "InvalidInputFormat"), <<"validate_message">>)
    ELSE LET r == transact(store, update_step(store, step_id, body, language))
         IN IF r.err # "none"
            THEN Served(r, <<"validate_message", "update_step">>)
            ELSE Served(r, <<"validate_message", "update_step", "invalidate",
                             "set_status 202", "finish">>)

StepInstance_delete(store, step_id) ==
    LET r == transact(store, delete_step(store, step_id))
    IN IF r.err # "none"
       THEN Served(r, <<"delete_step">>)
       ELSE Served(r, <<"delete_step", "invalidate", "set_status 200">>)

\* ------------------------------------------------------------------- inputs
ChildLists == { <<>>, <<"f1">>, <<"f2">> }
StepDescs == [id : StepIds, context_id : Contexts, label : Texts, children : ChildLists]
ListDescs == [id : StepIds, context_id : Contexts, label : {"a"}, children : {<<>>}]

RECURSIVE ListsUpTo(_)
ListsUpTo(n) ==
    IF n = 0 THEN { <<>> }
    ELSE ListsUpTo(n - 1) \cup
         { Append(l, d) : l \in { x \in ListsUpTo(n - 1) : Len(x) = n - 1 }, d \in ListDescs }

StepLists == ListsUpTo(MaxList)

Request(op, step_id, context_id, language, body, list) ==
    [op |-> op, step_id |-> step_id, context_id |-> context_id,
     language |-> language, body |-> body, steps |-> list]

Store == [steps |-> steps, fields |-> fields]

\* ---------------------------------------------------------------- the state
\* The store a request can find: empty, or holding steps that the field
\* subsystem has already given children.
InitStores ==
    { <<>>,
      [i \in {1} |-> [context_id |-> "c1", label |-> [l \in {"en"} |-> "a"],
                      children |-> {"f1"}]] }

NoRequest == Request("none", NoId, "", "", Malformed, <<>>)

\* ------------------------------------------------- concurrent transactions
Txns == {"t1", "t2"}

\* A transaction: its request, its place in the function's body (pc), the
\* rows it has written (ins) and removed (del) without committing yet, the
\* ids its loop collected, its error, and for a get_step the step it saw.
\* concurrent: the other transaction was open when this one began; dirty:
\* the step it saw was not a committed row.
IdleTxn ==
    [pc |-> "idle", req |-> NoRequest, new_id |-> NoId, ins |-> <<>>, del |-> {},
     ids |-> <<>>, err |-> "none", saw |-> NoId, concurrent |-> FALSE,
     dirty |-> FALSE]

Init ==
    /\ steps \in InitStores
    /\ fields = {"f1"}
    /\ last = NoRequest
    /\ error = "none"
    /\ response = NoResponse
    /\ steps_ids = <<>>
    /\ events = <<>>
    /\ before = Store
    /\ txns = [t \in Txns |-> IdleTxn]

Leave(served) ==
    /\ before' = Store
    /\ UNCHANGED txns
    /\ steps' = served.store.steps
    /\ fields' = served.store.fields
    /\ error' = served.err
    /\ response' = served.ret
    /\ events' = served.events

\* new_id stands for the uuid models.Step.new would draw: any id no stored
\* step holds. With every id of StepIds in use no further step is created.
CreateStep ==
    /\ last = NoRequest
    /\ \E body \in StepDescs \cup {Malformed}, language \in Languages,
       new_id \in StepIds \ DOMAIN steps :
        /\ Leave(StepCreate_post(Store, body, language, new_id))
        /\ last' = Request("create_step", NoId, "", language, body, <<>>)
        /\ steps_ids' = <<>>

GetStep ==
    /\ last = NoRequest
    /\ \E step_id \in StepIds, language \in Languages :
        /\ Leave(StepInstance_get(Store, step_id, language))
        /\ last' = Request("get_step", step_id, "", language, Malformed, <<>>)
        /\ steps_ids' = <<>>

UpdateStep ==
    /\ last = NoRequest
    /\ \E step_id \in StepIds, body \in StepDescs \cup {Malformed}, language \in Languages :
        /\ Leave(StepInstance_put(Store, step_id, body, language))
        /\ last' = Request("update_step", step_id, "", language, body, <<>>)
        /\ steps_ids' = <<>>

DeleteStep ==
    /\ last = NoRequest
    /\ \E step_id \in StepIds :
        /\ Leave(StepInstance_delete(Store, step_id))
        /\ last' = Request("delete_step", step_id, "", "", Malformed, <<>>)
        /\ steps_ids' = <<>>

\* A context update runs db_update_steps inside its own transaction.
UpdateSteps ==
    /\ last = NoRequest
    /\ \E context_id \in Contexts, list \in StepLists, language \in Languages :
        LET r == transact(Store, db_update_steps(Store, context_id, list, language))
        IN /\ Leave(Served(r, <<"db_update_steps">>))
           /\ last' = Request("db_update_steps", NoId, context_id, language, Malformed, list)
           /\ steps_ids' = r.steps_ids

\* The request is over: the handler object and what it held are dropped.
RequestDone ==
    /\ last # NoRequest
    /\ last' = NoRequest
    /\ error' = "none"
    /\ response' = NoResponse
    /\ steps_ids' = <<>>
    /\ events' = <<>>
    /\ before' = Store
    /\ UNCHANGED <<steps, fields, txns>>

Next ==
    \/ CreateStep
    \/ GetStep
    \/ UpdateStep
    \/ DeleteStep
    \/ UpdateSteps
    \/ RequestDone

Spec == Init /\ [][Next]_vars

\* =================================================================== claims
StoredIds(table, context_id) ==
    { i \in DOMAIN table : table[i].context_id = context_id }

OfContext(table, context_id) ==
    [i \in StoredIds(table, context_id) |-> table[i]]

MissingChild(body) ==
    \E i \in 1..Len(body.children) : body.children[i] \notin before.fields

\* C1: after db_update_steps(context_id, steps) the call has completed, every
\* submitted step has contributed one id (kept on update, fresh on create) and
\* the stored step ids of the context are exactly those ids.
C1_ReconcileStoresSubmitted ==
    last.op = "db_update_steps" =>
        /\ error = "none"
        /\ Len(steps_ids) = Len(last.steps)
        /\ StoredIds(steps, last.context_id) = Range(steps_ids)

\* C2: create_step with a child that is not a stored field fails with
\* FieldIdNotFound and leaves the stored steps as they were.
C2_CreateMissingChildFieldIdNotFound ==
    (last.op = "create_step" /\ validate_message(last.body) /\ MissingChild(last.body)) =>
        /\ error = "FieldIdNotFound"
        /\ steps = before.steps

\* C3: update_step for an id no stored step has fails with StepIdNotFound, and
\* that is the error kind the caller sees.
C3_UpdateUnknownStepIdNotFound ==
    (last.op = "update_step" /\ validate_message(last.body)
        /\ last.step_id \notin DOMAIN before.steps) =>
        error = "StepIdNotFound"

\* C4: delete_step for an id no stored step has fails with StepIdNotFound and
\* changes neither the steps, nor the fields, nor the associations.
C4_DeleteUnknownNoEffect ==
    (last.op = "delete_step" /\ last.step_id \notin DOMAIN before.steps) =>
        /\ error = "StepIdNotFound"
        /\ steps = before.steps
        /\ fields = before.fields

C4_Witness ==
    /\ last.op = "delete_step"
    /\ last.step_id \notin DOMAIN before.steps
    /\ DOMAIN before.steps # {}
    /\ error = "StepIdNotFound"

\* C5: db_update_steps with an empty list succeeds, removes every step of the
\* context and leaves the steps of every other context stored and unchanged.
C5_EmptyListClearsOnlyContext ==
    (last.op = "db_update_steps" /\ last.steps = <<>>) =>
        /\ error = "none"
        /\ StoredIds(steps, last.context_id) = {}
        /\ \A c \in Contexts \ {last.context_id} :
              OfContext(steps, c) = OfContext(before.steps, c)

C5_Witness ==
    /\ last.op = "db_update_steps"
    /\ last.steps = <<>>
    /\ StoredIds(before.steps, last.context_id) # {}
    /\ StoredIds(steps, last.context_id) = {}
    /\ DOMAIN steps # {}

C9_UpdateKeepsOtherLanguages ==
    (last.op = "update_step" /\ error = "none") =>
        /\ get_step(Store, last.step_id, last.language).err = "none"
        /\ get_step(Store, last.step_id, last.language).ret.label = last.body.label
        /\ response.label = last.body.label
        /\ \A l \in Languages \ {last.language} :
              /\ l \in DOMAIN steps[last.step_id].label
                    <=> l \in DOMAIN before.steps[last.step_id].label
              /\ l \in DOMAIN steps[last.step_id].label =>
                    steps[last.step_id].label[l] = before.steps[last.step_id].label[l]

C9_Witness ==
    /\ last.op = "update_step"
    /\ error = "none"
    /\ last.language = "it"
    /\ "en" \in DOMAIN before.steps[last.step_id].label
    /\ "it" \in DOMAIN before.steps[last.step_id].label
    /\ before.steps[last.step_id].label["it"] # last.body.label
    /\ before.steps[last.step_id].label["en"] # last.body.label

Position(evs, e) == CHOOSE i \in 1..Len(evs) : evs[i] = e

\* C10: the cache is invalidated only by a create, update or delete request
\* whose transaction succeeded, once, after the transaction and before the
\* status is set; never when the transaction fails and never by a get.
C10_InvalidateAfterSuccessOnly ==
    LET issued == "invalidate" \in Range(events)
        mutating == last.op \in {"create_step", "update_step", "delete_step"}
        status == { e \in Range(events) :
                      e \in {"set_status 200", "set_status 201", "set_status 202"} }
    IN /\ issued => (mutating /\ error = "none")
       /\ (mutating /\ error = "none") =>
             /\ Cardinality({ i \in 1..Len(events) : events[i] = "invalidate" }) = 1
             /\ Cardinality(status) = 1
             /\ Position(events, last.op) < Position(events, "invalidate")
             /\ Position(events, "invalidate") < Position(events, CHOOSE e \in status : TRUE)
       /\ last.op = "get_step" => ~issued

C10_Witness ==
    /\ last.op = "update_step"
    /\ error = "none"
    /\ "invalidate" \in Range(events)
    /\ steps # before.steps


\* C11: get_step never modifies the store: whether it returns the serialized
\* step or fails with StepIdNotFound (exactly when no step has the id), the
\* steps, the fields and the associations are what they were before.
C11_GetLeavesStore ==
    last.op = "get_step" =>
        /\ steps = before.steps
        /\ fields = before.fields
        /\ IF last.step_id \in DOMAIN before.steps
           THEN /\ error = "none"
                /\ response = anon_serialize_step(before, last.step_id, last.language)
           ELSE error = "StepIdNotFound"

C11_Witness ==
    /\ last.op = "get_step"
    /\ error = "none"
    /\ response.id = last.step_id
    /\ response.children # {}


UpdateOfStored ==
    /\ last.op = "update_step"
    /\ validate_message(last.body)
    /\ last.step_id \in DOMAIN before.steps

\* C12: a fault raised while update_step processes an existing step, other
\* than a domain error, reaches the caller as InvalidInputFormat.
C12_UpdateFaultIsInvalidInputFormat ==
    (UpdateOfStored
        /\ update_try(before, last.step_id, last.body, last.language).err
              \notin {"none", "StepIdNotFound", "FieldIdNotFound"}) =>
        error = "InvalidInputFormat"

\* C13: when update_step fails while processing a child, after the step row
\* has taken the new attributes, the stored step is exactly what it was.
C13_FailedUpdateRollsBack ==
    (UpdateOfStored
        /\ update_try(before, last.step_id, last.body, last.language).err # "none") =>
        /\ error # "none"
        /\ steps = before.steps
        /\ fields = before.fields

C13_Witness ==
    /\ UpdateOfStored
    /\ last.body.children # <<>>
    /\ update_try(before, last.step_id, last.body, last.language).store.steps
          # before.steps
    /\ error # "none"
    /\ steps = before.steps

\* C14: after db_update_steps(context_id, steps), for steps that carry no
\* children (so no domain error can arise), every submitted step has been
\* updated or created and is stored with context_id, whatever context_id the
\* client put in it.
C14_SubmittedStepsTakeContext ==
    last.op = "db_update_steps" =>
        /\ Len(steps_ids) = Len(last.steps)
        /\ \A k \in 1..Len(steps_ids) :
              /\ steps_ids[k] \in DOMAIN steps
              /\ steps[steps_ids[k]].context_id = last.context_id

C16_IdsFreshAndImmutable ==
    /\ (last.op = "create_step" /\ error = "none") =>
          /\ response.id \notin DOMAIN before.steps
          /\ DOMAIN steps = DOMAIN before.steps \cup {response.id}
          /\ \A i \in DOMAIN before.steps : steps[i] = before.steps[i]
    /\ (last.op = "update_step" /\ error = "none") =>
          /\ DOMAIN steps = DOMAIN before.steps
          /\ response.id = last.step_id
          /\ \A i \in DOMAIN steps \ {last.step_id} : steps[i] = before.steps[i]

C16_Witness ==
    /\ last.op = "update_step"
    /\ error = "none"
    /\ last.body.id # last.step_id
    /\ last.body.id \in DOMAIN steps
    /\ steps[last.step_id] # before.steps[last.step_id]


\* ======================================================= concurrent requests
\* Requests run concurrently, each function inside one transaction of the
\* store: a transaction reads the committed rows and its own writes (read
\* committed), waits for a row another open transaction has written, and
\* commits or rolls back as a whole.
Other(t) == CHOOSE u \in Txns : u # t

Open(t) == txns[t].pc \notin {"idle", "done"}

View(t) ==
    [steps |-> [i \in (DOMAIN steps \ txns[t].del) \cup DOMAIN txns[t].ins |->
                   IF i \in DOMAIN txns[t].ins THEN txns[t].ins[i] ELSE steps[i]],
     fields |-> fields]

\* The rows a transaction holds uncommitted when its view of the table is
\* `table`: those it wrote and those it removed.
Written(table) ==
    [i \in { j \in DOMAIN table : j \notin DOMAIN steps \/ table[j] # steps[j] }
        |-> table[i]]

Removed(table) == DOMAIN steps \ DOMAIN table

\* No row t would hold is held by the other transaction.
Free(t, table) ==
    (DOMAIN Written(table) \cup Removed(table))
        \cap (DOMAIN txns[Other(t)].ins \cup txns[Other(t)].del) = {}

Holding(t, table, pc, err) ==
    [txns[t] EXCEPT !.ins = Written(table), !.del = Removed(table),
                    !.pc = pc, !.err = err]

CreateBodies == { b \in StepDescs : b.id = 1 /\ b.label = "a" }

ConcurrentRequests ==
    { Request("db_update_steps", NoId, c, "en", Malformed, list) :
          c \in Contexts, list \in StepLists }
    \cup { Request("create_step", NoId, "", "en", b, <<>>) : b \in CreateBodies }
    \cup { Request("get_step", i, "", "en", Malformed, <<>>) : i \in StepIds }

\* The stores concurrent requests can find: those of InitStores, and two
\* steps of one context or of two.
SharedStores ==
    InitStores \cup
    { [i \in {1, 2} |-> [context_id |-> IF i = 1 THEN "c1" ELSE c,
                         label |-> [l \in {"en"} |-> "a"], children |-> {}]] :
          c \in Contexts }

InitConcurrent ==
    /\ steps \in SharedStores
    /\ fields = {"f1"}
    /\ last = NoRequest
    /\ error = "none"
    /\ response = NoResponse
    /\ steps_ids = <<>>
    /\ events = <<>>
    /\ before = Store
    /\ txns = [t \in Txns |-> IdleTxn]

Apart == UNCHANGED <<fields, last, error, response, steps_ids, events, before>>

\* A request arrives and its transaction opens; a create draws its uuid.
Begin(t) ==
    /\ txns[t].pc = "idle"
    /\ \E req \in ConcurrentRequests, new_id \in StepIds \cup {NoId} :
          /\ IF req.op = "create_step"
             THEN new_id \in StepIds \ (DOMAIN steps \cup {txns[Other(t)].new_id})
             ELSE new_id = NoId
          /\ txns' = [txns EXCEPT ![t] =
                         [IdleTxn EXCEPT !.pc = "begun", !.req = req,
                                         !.new_id = new_id,
                                         !.concurrent = Open(Other(t))]]
    /\ UNCHANGED steps
    /\ Apart

\* db_create_step, lines 32-34: the row is inserted.
CreateInsert(t) ==
    /\ txns[t].pc = "begun"
    /\ txns[t].req.op = "create_step"
    /\ LET filled == fill_localized_keys(txns[t].req.body, txns[t].req.language)
           s == Step_new(View(t), filled, txns[t].new_id)
       IN /\ Free(t, s.steps)
          /\ txns' = [txns EXCEPT ![t] = Holding(t, s.steps, "inserted", "none")]
    /\ UNCHANGED steps
    /\ Apart

\* db_create_step, lines 35-43: the children are checked.
CreateChildren(t) ==
    /\ txns[t].pc = "inserted"
    /\ LET r == create_children(View(t), txns[t].req.body.children, 1)
       IN /\ Free(t, r.store.steps)
          /\ txns' = [txns EXCEPT ![t] = Holding(t, r.store.steps, "ended", r.err)]
    /\ UNCHANGED steps
    /\ Apart

\* db_update_steps, lines 133-137: the submitted steps are upserted.
ReconcileLoop(t) ==
    /\ txns[t].pc = "begun"
    /\ txns[t].req.op = "db_update_steps"
    /\ LET u == upsert_steps(View(t), txns[t].req.context_id, txns[t].req.steps,
                             txns[t].req.language, 1, <<>>)
       IN /\ Free(t, u.store.steps)
          /\ txns' = [txns EXCEPT ![t] =
                         [Holding(t, u.store.steps,
                                  IF u.err = "none" THEN "upserted" ELSE "ended",
                                  u.err)
                             EXCEPT !.ids = u.steps_ids]]
    /\ UNCHANGED steps
    /\ Apart

\* db_update_steps, line 139: the other steps of the context are removed.
ReconcilePrune(t) ==
    /\ txns[t].pc = "upserted"
    /\ LET s == prune(View(t), txns[t].req.context_id, txns[t].ids)
       IN /\ Free(t, s.steps)
          /\ txns' = [txns EXCEPT ![t] = Holding(t, s.steps, "ended", "none")]
    /\ UNCHANGED steps
    /\ Apart

\* get_step, lines 99-103.
GetFind(t) ==
    /\ txns[t].pc = "begun"
    /\ txns[t].req.op = "get_step"
    /\ LET r == get_step(View(t), txns[t].req.step_id, txns[t].req.language)
       IN txns' = [txns EXCEPT ![t] =
                      [@ EXCEPT !.pc = "ended", !.err = r.err,
                                !.saw = IF r.err = "none" THEN r.ret.id ELSE NoId,
                                !.dirty = r.err = "none"
                                            /\ r.ret.id \notin DOMAIN steps]]
    /\ UNCHANGED steps
    /\ Apart

\* transact: the function returned, its writes are committed.
Commit(t) ==
    /\ txns[t].pc = "ended"
    /\ txns[t].err = "none"
    /\ txns[t].req.op # "get_step"
    /\ steps' = View(t).steps
    /\ txns' = [txns EXCEPT ![t] = [@ EXCEPT !.pc = "done", !.ins = <<>>, !.del = {}]]
    /\ Apart

\* transact: the function raised, its writes are dropped; transact_ro: a
\* read-only transaction ends without a commit.
Rollback(t) ==
    /\ txns[t].pc = "ended"
    /\ txns[t].err # "none" \/ txns[t].req.op = "get_step"
    /\ txns' = [txns EXCEPT ![t] = [@ EXCEPT !.pc = "done", !.ins = <<>>, !.del = {}]]
    /\ UNCHANGED steps
    /\ Apart

NextConcurrent ==
    \E t \in Txns :
        \/ Begin(t)
        \/ CreateInsert(t)
        \/ CreateChildren(t)
        \/ ReconcileLoop(t)
        \/ ReconcilePrune(t)
        \/ GetFind(t)
        \/ Commit(t)
        \/ Rollback(t)

SpecConcurrent == InitConcurrent /\ [][NextConcurrent]_vars

\* The table after the reconciliation of transaction a and then that of b,
\* one after the other, from the store both found.
Serial(a, b) ==
    LET first == transact(before, db_update_steps(before, txns[a].req.context_id,
                              txns[a].req.steps, txns[a].req.language))
        second == transact(first.store,
                           db_update_steps(first.store, txns[b].req.context_id,
                              txns[b].req.steps, txns[b].req.language))
    IN second.store.steps

BothReconciled ==
    /\ \A t \in Txns : txns[t].pc = "done" /\ txns[t].req.op = "db_update_steps"
    /\ txns["t1"].req.context_id = txns["t2"].req.context_id

====
